---- MODULE Spec2Model ----
(***************************************************************************)
(* The n-gram frequency estimator of                                       *)
(* chapter_recurrent-neural-networks/lang-model.ipynb: the notebook's code *)
(* cells (read and tokenize the corpus, count words, pairs and triples)    *)
(* run in order, followed by evaluations of the Laplace-smoothed           *)
(* estimates of the notebook's formulas.                                   *)
(*                                                                         *)
(* A character is a one-character string, a line and a token are           *)
(* sequences of characters, and a Counter is the sequence of its entries   *)
(* [key, n] in insertion order (a Python dict keeps insertion order).      *)
(* Probabilities are exact rationals [err, num, den]; err names the        *)
(* exception the evaluation ended in, or is "none".                        *)
(***************************************************************************)
EXTENDS Integers, Sequences, FiniteSets

VARIABLES fileExists, lines, pc, raw_dataset, counter, wordcounts, wseq,
          word_pairs, counter_pairs, word_triples, counter_triples,
          bigramcounts, triplecounts, query, result, rebuilt

vars == <<fileExists, lines, pc, raw_dataset, counter, wordcounts, wseq,
          word_pairs, counter_pairs, word_triples, counter_triples,
          bigramcounts, triplecounts, query, result, rebuilt>>

(***************************************************************************)
(* Bounds and input sets.                                                  *)
(***************************************************************************)
MaxLines == 4

MaxLineLen == 4

\* Characters of the single-line inputs: a lower-case letter, an upper-case
\* letter, a punctuation mark and a blank.
Alphabet == {"a", "B", "'", " "}

\* Lines of the multi-line inputs, as readlines() returns them (with their
\* line end): an empty line, two one-word lines and a two-word line.
CorpusLines == { <<"\n">>, <<"a", "\n">>, <<"B", "\n">>, <<"a", " ", "b", "\n">> }

\* Words the estimates are asked about.
QueryWords == { <<"a">>, <<"b">> }

RECURSIVE SeqsUpTo(_, _)
SeqsUpTo(S, n) ==
  IF n = 0 THEN { <<>> }
  ELSE LET shorter == SeqsUpTo(S, n - 1)
       IN  shorter \cup { Append(s, x) : s \in { t \in shorter : Len(t) = n - 1 }, x \in S }

InputTexts ==
  SeqsUpTo(CorpusLines, MaxLines)
    \cup { <<l>> : l \in (SeqsUpTo(Alphabet, MaxLineLen) \ { <<>> }) }

(***************************************************************************)
(* Characters and strings.                                                 *)
(***************************************************************************)
UpperLetters == {"A", "B"}

LowerLetters == {"a", "b"}

\* The class [A-Za-z] of the regular expression.
IsLetter(c) == c \in UpperLetters \cup LowerLetters

\* str.isspace() of one character.
IsSpace(c) == c \in {" ", "\n", "\t"}

LowerChar(c) == CASE c = "A" -> "a" [] c = "B" -> "b" [] OTHER -> c

\* str.lower()
LowerStr(s) == [i \in 1..Len(s) |-> LowerChar(s[i])]

RECURSIVE DropNonLetters(_)
DropNonLetters(s) ==
  IF s = <<>> \/ IsLetter(Head(s)) THEN s ELSE DropNonLetters(Tail(s))

\* re.sub('[^A-Za-z]+', ' ', st): every maximal run of non-letters becomes
\* one blank.
RECURSIVE ReSub(_)
ReSub(s) ==
  IF s = <<>> THEN <<>>
  ELSE IF IsLetter(Head(s)) THEN <<Head(s)>> \o ReSub(Tail(s))
  ELSE <<" ">> \o ReSub(DropNonLetters(Tail(s)))

RECURSIVE DropSpaces(_)
DropSpaces(s) ==
  IF s = <<>> \/ ~IsSpace(Head(s)) THEN s ELSE DropSpaces(Tail(s))

RECURSIVE TakeWord(_)
TakeWord(s) ==
  IF s = <<>> \/ IsSpace(Head(s)) THEN <<>> ELSE <<Head(s)>> \o TakeWord(Tail(s))

\* str.split() without arguments: the maximal runs of non-blank characters.
RECURSIVE Split(_)
Split(s) ==
  LET t == DropSpaces(s)
  IN  IF t = <<>> THEN <<>>
      ELSE LET w == TakeWord(t)
           IN  <<w>> \o Split(SubSeq(t, Len(w) + 1, Len(t)))

\* re.sub(...).split(): the call of lower() left out.
tokenizeNoLower(st) == Split(ReSub(st))

\* re.sub('[^A-Za-z\s]+', '', st).lower().split(): the characters that are
\* neither letters nor blanks removed, not replaced by a blank.
tokenizeRemove(st) ==
  Split(LowerStr(SelectSeq(st, LAMBDA c : IsLetter(c) \/ IsSpace(c))))

\* re.sub('[^A-Za-z]+', ' ', st).lower().split()
tokenize(st) == Split(LowerStr(ReSub(st)))

(***************************************************************************)
(* Lists.                                                                  *)
(***************************************************************************)
Min(a, b) == IF a < b THEN a ELSE b

Max(a, b) == IF a < b THEN b ELSE a

\* [tk for st in raw_dataset for tk in st]
RECURSIVE Flatten(_)
Flatten(ds) == IF ds = <<>> THEN <<>> ELSE Head(ds) \o Flatten(Tail(ds))

\* A slice index of Python, brought into 0..n.
Clamp(i, n) ==
  IF i < 0 THEN (IF i + n < 0 THEN 0 ELSE i + n)
  ELSE IF i > n THEN n ELSE i

\* s[start:stop], 0-based, a negative index counting from the end.
PySlice(s, start, stop) ==
  LET lo == Clamp(start, Len(s))
      hi == Clamp(stop, Len(s))
  IN  IF lo >= hi THEN <<>> ELSE SubSeq(s, lo + 1, hi)

\* zip stops with its shortest argument.
Zip2(a, b) == [i \in 1..Min(Len(a), Len(b)) |-> <<a[i], b[i]>>]

Zip3(a, b, c) ==
  [i \in 1..Min(Len(a), Min(Len(b), Len(c))) |-> <<a[i], b[i], c[i]>>]

\* zip(wseq[:-1], wseq[2:]): a window that skips a word.
WordPairsSkip(ws) == Zip2(PySlice(ws, 0, -1), PySlice(ws, 2, Len(ws)))

\* zip(wseq, wseq[1:] + wseq[:1]): a window that wraps around the end.
WordPairsWrap(ws) == Zip2(ws, PySlice(ws, 1, Len(ws)) \o PySlice(ws, 0, 1))

\* zip(wseq[:-1], wseq[:-1]): the second slice not shifted.
WordPairsUnshifted(ws) == Zip2(PySlice(ws, 0, -1), PySlice(ws, 0, -1))

\* zip(wseq[:-1], wseq[1:])
WordPairs(ws) == Zip2(PySlice(ws, 0, -1), PySlice(ws, 1, Len(ws)))

\* zip(wseq[:-2], wseq[1:-1], wseq[2:])
WordTriples(ws) ==
  Zip3(PySlice(ws, 0, -2), PySlice(ws, 1, -1), PySlice(ws, 2, Len(ws)))

(***************************************************************************)
(* collections.Counter.                                                    *)
(***************************************************************************)
HasKey(c, k) == \E i \in 1..Len(c) : c[i].key = k

\* self[elem] = 1: a key seen again is not incremented.
CounterAddSet(c, k) ==
  IF HasKey(c, k) THEN c ELSE Append(c, [key |-> k, n |-> 1])

\* self[elem] = self.get(elem, -1) + 1: a new key starts at 0.
CounterAddFromZero(c, k) ==
  IF HasKey(c, k)
  THEN [i \in 1..Len(c) |-> IF c[i].key = k THEN [c[i] EXCEPT !.n = @ + 1] ELSE c[i]]
  ELSE Append(c, [key |-> k, n |-> 0])

\* self[elem] = self.get(elem, 0) + 1
CounterAdd(c, k) ==
  IF HasKey(c, k)
  THEN [i \in 1..Len(c) |-> IF c[i].key = k THEN [c[i] EXCEPT !.n = @ + 1] ELSE c[i]]
  ELSE Append(c, [key |-> k, n |-> 1])

RECURSIVE CounterUpdate(_, _)
CounterUpdate(c, elems) ==
  IF elems = <<>> THEN c
  ELSE CounterUpdate(CounterAdd(c, Head(elems)), Tail(elems))

\* Counter(iterable[1:]): the first element is not counted.
CounterSkipFirst(elems) ==
  IF elems = <<>> THEN <<>> ELSE CounterUpdate(<<>>, Tail(elems))

\* collections.Counter(iterable)
Counter(elems) == CounterUpdate(<<>>, elems)

\* counter.get(key, 1): an absent key reads as 1.
LookupDefaultOne(c, k) ==
  IF HasKey(c, k) THEN (CHOOSE e \in { c[i] : i \in 1..Len(c) } : e.key = k).n ELSE 1

\* counter[key]: the count of a present key, 0 for an absent one (which is
\* not inserted).
Lookup(c, k) ==
  IF HasKey(c, k) THEN (CHOOSE e \in { c[i] : i \in 1..Len(c) } : e.key = k).n ELSE 0

\* The table after d[key] of a defaultdict(int): an absent key is stored
\* with 0.
AfterLookupInsert(c, k) ==
  IF HasKey(c, k) THEN c ELSE Append(c, [key |-> k, n |-> 0])

\* The table after counter[key]: Counter answers an absent key without
\* storing it.
AfterLookup(c, k) == c

\* One step of a stable sort by count, largest first.
InsertByCount(sorted, e) ==
  LET before == { i \in 1..Len(sorted) : sorted[i].n >= e.n }
      k == IF before = {} THEN 0 ELSE CHOOSE i \in before : \A j \in before : j <= i
  IN  SubSeq(sorted, 1, k) \o <<e>> \o SubSeq(sorted, k + 1, Len(sorted))

RECURSIVE SortByCount(_, _)
SortByCount(sorted, c) ==
  IF c = <<>> THEN sorted ELSE SortByCount(InsertByCount(sorted, Head(c)), Tail(c))

\* counter.most_common(): sorted(items, key=count, reverse=True)
most_common(c) == SortByCount(<<>>, c)

\* [count for _, count in counter.most_common()]
CountsOf(c) == LET mc == most_common(c) IN [i \in 1..Len(mc) |-> mc[i].n]

(***************************************************************************)
(* Numbers: exact rationals, and the exception of a division by zero.      *)
(***************************************************************************)
RECURSIVE GCD(_, _)
GCD(a, b) == IF b = 0 THEN a ELSE GCD(b, a % b)

Abs(a) == IF a < 0 THEN -a ELSE a

\* The rational n/d (d # 0) in lowest terms with a positive denominator.
Q(n, d) ==
  LET g == GCD(Abs(n), Abs(d))
      s == IF d < 0 THEN -1 ELSE 1
  IN  [err |-> "none", num |-> (s * n) \div g, den |-> (s * d) \div g]

QInt(n) == Q(n, 1)

ZeroDivisionError == [err |-> "ZeroDivisionError", num |-> 0, den |-> 1]

IsValue(x) == x.err = "none"

\* x + y; an exception raised while evaluating an operand propagates.
QAdd(x, y) ==
  IF ~IsValue(x) THEN x
  ELSE IF ~IsValue(y) THEN y
  ELSE Q(x.num * y.den + y.num * x.den, x.den * y.den)

QMul(x, y) ==
  IF ~IsValue(x) THEN x
  ELSE IF ~IsValue(y) THEN y
  ELSE Q(x.num * y.num, x.den * y.den)

\* x / y of Python: ZeroDivisionError when y is zero.
QDiv(x, y) ==
  IF ~IsValue(x) THEN x
  ELSE IF ~IsValue(y) THEN y
  ELSE IF y.num = 0 THEN ZeroDivisionError
  ELSE Q(x.num * y.den, x.den * y.num)

QLess(x, y) == x.num * y.den < y.num * x.den

QLeq(x, y) == x.num * y.den <= y.num * x.den

\* Smoothing constants the estimates are evaluated with.
Eps == { Q(0, 1), Q(1, 2), Q(2, 1) }

(***************************************************************************)
(* The smoothed estimates.                                                 *)
(***************************************************************************)
\* n(w) / (n + eps1): the term eps1/m left out.
unigram_prob_NoVocabTerm(word, table1, total, e1, vocab_size) ==
  QDiv(QInt(Lookup(table1, word)), QAdd(QInt(total), e1))

\* (n(w) + 1) / (n + m): add-one smoothing instead of the formula.
unigram_prob_AddOne(word, table1, total, e1, vocab_size) ==
  QDiv(QInt(Lookup(table1, word) + 1), QInt(total + vocab_size))

\* The formula in floating-point arrays, where a division by zero gives nan
\* instead of raising.
unigram_prob_NoRaise(word, table1, total, e1, vocab_size) ==
  IF vocab_size = 0 \/ QAdd(QInt(total), e1).num = 0
  THEN [err |-> "nan", num |-> 0, den |-> 1]
  ELSE QDiv(QAdd(QInt(Lookup(table1, word)), QDiv(e1, QInt(vocab_size))),
            QAdd(QInt(total), e1))

\* p(w) = (n(w) + eps1/m) / (n + eps1)
unigram_prob(word, table1, total, e1, vocab_size) ==
  QDiv(QAdd(QInt(Lookup(table1, word)), QDiv(e1, QInt(vocab_size))),
       QAdd(QInt(total), e1))

\* n(w,w') / (n(w) + eps2): the term eps2 p(w') left out.
bigram_formula_NoBackoffTerm(w2, w1, table2, table1, e2, p) ==
  QDiv(QInt(Lookup(table2, <<w1, w2>>)), QAdd(QInt(Lookup(table1, w1)), e2))

\* (n(w,w') + p(w')) / (n(w) + eps2): p(w') not weighted by eps2.
bigram_formula_Unweighted(w2, w1, table2, table1, e2, p) ==
  QDiv(QAdd(QInt(Lookup(table2, <<w1, w2>>)), p),
       QAdd(QInt(Lookup(table1, w1)), e2))

\* p(w'|w) = (n(w,w') + eps2 p(w')) / (n(w) + eps2), p being p(w')
bigram_formula(w2, w1, table2, table1, e2, p) ==
  QDiv(QAdd(QInt(Lookup(table2, <<w1, w2>>)), QMul(e2, p)),
       QAdd(QInt(Lookup(table1, w1)), e2))

\* The formula, backing off to unigram_prob(w2) when w1 was never counted.
bigram_prob(w2, w1, table2, table1, e2, total, e1, vocab_size) ==
  IF Lookup(table1, w1) = 0
  THEN unigram_prob(w2, table1, total, e1, vocab_size)
  ELSE bigram_formula(w2, w1, table2, table1, e2,
                      unigram_prob(w2, table1, total, e1, vocab_size))

(***************************************************************************)
(* The notebook, cell by cell.                                             *)
(***************************************************************************)
\* The word of print("frequency of 'traveller':", counter['traveller']).
Traveller == <<"t", "r", "a", "v", "e", "l", "l", "e", "r">>

\* An order of counting a list: from position rot + 1 on, around the end,
\* and backwards when rev.
Orders(elems) == [rot : 0..Max(0, Len(elems) - 1), rev : BOOLEAN]

Reverse(elems) == [i \in 1..Len(elems) |-> elems[Len(elems) + 1 - i]]

Reorder(elems, order) ==
  LET rotated == SubSeq(elems, order.rot + 1, Len(elems)) \o SubSeq(elems, 1, order.rot)
  IN  IF order.rev THEN Reverse(rotated) ELSE rotated

NoRebuild == [n |-> 0, order |-> [rot |-> 0, rev |-> FALSE], table |-> <<>>]

NoQuery == [op |-> "none", w1 |-> <<>>, w2 |-> <<>>, e1 |-> Q(0, 1), e2 |-> Q(0, 1)]

Init ==
  /\ \/ fileExists = TRUE /\ lines \in InputTexts
     \/ fileExists = FALSE /\ lines = <<>>
  /\ pc = "read"
  /\ raw_dataset = <<>>
  /\ counter = <<>>
  /\ wordcounts = <<>>
  /\ wseq = <<>>
  /\ word_pairs = <<>>
  /\ counter_pairs = <<>>
  /\ word_triples = <<>>
  /\ counter_triples = <<>>
  /\ bigramcounts = <<>>
  /\ triplecounts = <<>>
  /\ query = NoQuery
  /\ result = Q(0, 1)
  /\ rebuilt = NoRebuild

\* The cell with open(...) wrapped in try/except: a missing file reads as an
\* empty one and the run goes on.
ReadCorpusSwallow ==
  /\ pc = "read"
  /\ raw_dataset' = IF fileExists THEN [i \in 1..Len(lines) |-> tokenize(lines[i])]
                    ELSE <<>>
  /\ pc' = "count"
  /\ rebuilt' = NoRebuild
  /\ UNCHANGED <<fileExists, lines, counter, wordcounts, wseq, word_pairs,
                 counter_pairs, word_triples, counter_triples, bigramcounts,
                 triplecounts, query, result>>

\* with open(...) as f: lines = f.readlines(); raw_dataset = [... for st in lines]
ReadCorpus ==
  /\ pc = "read"
  /\ IF fileExists
     THEN /\ raw_dataset' = [i \in 1..Len(lines) |-> tokenize(lines[i])]
          /\ pc' = "count"
     ELSE /\ raw_dataset' = raw_dataset
          /\ pc' = "FileNotFoundError"
  /\ rebuilt' = NoRebuild
  /\ UNCHANGED <<fileExists, lines, counter, wordcounts, wseq, word_pairs,
                 counter_pairs, word_triples, counter_triples, bigramcounts,
                 triplecounts, query, result>>

\* counter = collections.Counter([tk for st in raw_dataset for tk in st]);
\* counter['traveller']
CountWords ==
  /\ pc = "count"
  /\ counter' = AfterLookup(Counter(Flatten(raw_dataset)), Traveller)
  /\ pc' = "plot"
  /\ rebuilt' = NoRebuild
  /\ UNCHANGED <<fileExists, lines, raw_dataset, wordcounts, wseq, word_pairs,
                 counter_pairs, word_triples, counter_triples, bigramcounts,
                 triplecounts, query, result>>

\* wordcounts = [count for _,count in counter.most_common()]
PlotWordCounts ==
  /\ pc = "plot"
  /\ wordcounts' = CountsOf(counter)
  /\ pc' = "pairs"
  /\ rebuilt' = NoRebuild
  /\ UNCHANGED <<fileExists, lines, raw_dataset, counter, wseq, word_pairs,
                 counter_pairs, word_triples, counter_triples, bigramcounts,
                 triplecounts, query, result>>

\* The pairs taken line by line: [p for st in raw_dataset for p in zip(st[:-1], st[1:])]
CountPairsPerLine ==
  /\ pc = "pairs"
  /\ wseq' = Flatten(raw_dataset)
  /\ word_pairs' = Flatten([i \in 1..Len(raw_dataset) |-> WordPairs(raw_dataset[i])])
  /\ counter_pairs' = Counter(word_pairs')
  /\ pc' = "triples"
  /\ rebuilt' = NoRebuild
  /\ UNCHANGED <<fileExists, lines, raw_dataset, counter, wordcounts,
                 word_triples, counter_triples, bigramcounts, triplecounts,
                 query, result>>

\* wseq, word_pairs, counter_pairs
CountPairs ==
  /\ pc = "pairs"
  /\ wseq' = Flatten(raw_dataset)
  /\ word_pairs' = WordPairs(wseq')
  /\ counter_pairs' = Counter(word_pairs')
  /\ pc' = "triples"
  /\ rebuilt' = NoRebuild
  /\ UNCHANGED <<fileExists, lines, raw_dataset, counter, wordcounts,
                 word_triples, counter_triples, bigramcounts, triplecounts,
                 query, result>>

\* word_triples, counter_triples, bigramcounts, triplecounts
CountTriples ==
  /\ pc = "triples"
  /\ word_triples' = WordTriples(wseq)
  /\ counter_triples' = Counter(word_triples')
  /\ bigramcounts' = CountsOf(counter_pairs)
  /\ triplecounts' = CountsOf(counter_triples')
  /\ pc' = "done"
  /\ rebuilt' = NoRebuild
  /\ UNCHANGED <<fileExists, lines, raw_dataset, counter, wordcounts, wseq,
                 word_pairs, counter_pairs, query, result>>

\* unigram_prob(word, counter, len(wseq), e1, len(counter)); a run evaluates
\* one estimate.
UnigramProb(word, e1) ==
  /\ pc = "done"
  /\ rebuilt = NoRebuild
  /\ query' = [op |-> "unigram_prob", w1 |-> <<>>, w2 |-> word, e1 |-> e1, e2 |-> Q(0, 1)]
  /\ result' = unigram_prob(word, counter, Len(wseq), e1, Len(counter))
  /\ counter' = AfterLookup(counter, word)
  /\ pc' = "answered"
  /\ rebuilt' = NoRebuild
  /\ UNCHANGED <<fileExists, lines, raw_dataset, wordcounts, wseq,
                 word_pairs, counter_pairs, word_triples, counter_triples,
                 bigramcounts, triplecounts>>

\* bigram_prob(w2, w1, counter_pairs, counter, e2), over the same unigram estimate
BigramProb(w2, w1, e1, e2) ==
  /\ pc = "done"
  /\ rebuilt = NoRebuild
  /\ query' = [op |-> "bigram_prob", w1 |-> w1, w2 |-> w2, e1 |-> e1, e2 |-> e2]
  /\ result' = bigram_prob(w2, w1, counter_pairs, counter, e2, Len(wseq), e1, Len(counter))
  /\ counter' = AfterLookup(AfterLookup(counter, w1), w2)
  /\ counter_pairs' = IF Lookup(counter, w1) = 0 THEN counter_pairs
                      ELSE AfterLookup(counter_pairs, <<w1, w2>>)
  /\ pc' = "answered"
  /\ rebuilt' = NoRebuild
  /\ UNCHANGED <<fileExists, lines, raw_dataset, wordcounts, wseq,
                 word_pairs, word_triples, counter_triples,
                 bigramcounts, triplecounts>>

\* The list table n is counted from.
ElementsOf(n) ==
  CASE n = 1 -> Flatten(raw_dataset) [] n = 2 -> word_pairs [] n = 3 -> word_triples

\* Table n built once more from the corpus, between any two cells after its
\* first build or after the last cell, counting the window positions in some
\* order; the next cell forgets it. A run ends with one rebuild or one
\* estimate.
Rebuild(n, order) ==
  /\ rebuilt = NoRebuild
  /\ \/ n = 1 /\ pc \in {"plot", "pairs", "triples", "done"}
     \/ n = 2 /\ pc \in {"triples", "done"}
     \/ n = 3 /\ pc = "done"
  /\ rebuilt' = [n |-> n, order |-> order, table |-> Counter(Reorder(ElementsOf(n), order))]
  /\ UNCHANGED <<fileExists, lines, pc, raw_dataset, counter, wordcounts, wseq,
                 word_pairs, counter_pairs, word_triples, counter_triples,
                 bigramcounts, triplecounts, query, result>>

Next ==
  \/ ReadCorpus
  \/ CountWords
  \/ PlotWordCounts
  \/ CountPairs
  \/ CountTriples
  \/ \E word \in QueryWords, e1 \in Eps : UnigramProb(word, e1)
  \/ \E w2 \in QueryWords, w1 \in QueryWords, e1 \in Eps, e2 \in Eps :
       BigramProb(w2, w1, e1, e2)
  \/ \E n \in 1..3 : \E order \in Orders(ElementsOf(n)) : Rebuild(n, order)

Spec == Init /\ [][Next]_vars

(***************************************************************************)
(* What the properties are stated with.                                    *)
(***************************************************************************)
RECURSIVE SumCounts(_)
\* sum(table.values())
SumCounts(c) == IF c = <<>> THEN 0 ELSE Head(c).n + SumCounts(Tail(c))

RECURSIVE TokenTotal(_)
\* The number of tokens of all lines together.
TokenTotal(ds) == IF ds = <<>> THEN 0 ELSE Len(Head(ds)) + TokenTotal(Tail(ds))

\* The tables are built.
Built == pc \in {"done", "answered"}

Table(n) == CASE n = 1 -> counter [] n = 2 -> counter_pairs [] n = 3 -> counter_triples

\* Window positions of the n-grams of ws.
Positions(ws, n) == 1..(Len(ws) - n + 1)

\* The n-gram at window position i: a word for n = 1, a tuple otherwise.
KeyAt(ws, n, i) == IF n = 1 THEN ws[i] ELSE SubSeq(ws, i, i + n - 1)

Occurrences(ws, n, k) == Cardinality({ i \in Positions(ws, n) : KeyAt(ws, n, i) = k })

AllDistinct(ws, n) ==
  \A i, j \in Positions(ws, n) : i # j => KeyAt(ws, n, i) # KeyAt(ws, n, j)

Entries(c) == { c[i] : i \in 1..Len(c) }

a == <<"a">>

b == <<"b">>

(***************************************************************************)
(* C1: once the unigram table is built, its counts sum to the number of    *)
(* tokens of the corpus, whatever the lines (empty ones included).         *)
(***************************************************************************)
C1_UnigramSumIsCorpusLength ==
  pc \in {"plot", "pairs", "triples", "done", "answered"}
    => SumCounts(counter) = TokenTotal(raw_dataset)

C1_Witness ==
  /\ pc = "plot"
  /\ \E i \in 1..Len(raw_dataset) : raw_dataset[i] = <<>>
  /\ Len(counter) = 2
  /\ SumCounts(counter) = 5

(***************************************************************************)
(* C2: for n = 1, 2, 3 the n-grams are the width-n windows at stride 1;    *)
(* the counts of table n sum to len(tokens) - n + 1, and the table is      *)
(* empty when there are fewer than n tokens.                               *)
(***************************************************************************)
C2_WindowCounts ==
  Built =>
    /\ word_pairs = [i \in Positions(wseq, 2) |-> <<wseq[i], wseq[i + 1]>>]
    /\ word_triples = [i \in Positions(wseq, 3) |-> <<wseq[i], wseq[i + 1], wseq[i + 2]>>]
    /\ \A n \in 1..3 :
         IF Len(wseq) < n
         THEN Table(n) = <<>>
         ELSE SumCounts(Table(n)) = Len(wseq) - n + 1

C2_Witness ==
  /\ pc = "done"
  /\ Len(wseq) = 5
  /\ SumCounts(counter_pairs) = 4
  /\ SumCounts(counter_triples) = 3
  /\ Len(counter_triples) < 3

(***************************************************************************)
(* C3, as stated: table N has at most len(tokens) - N + 1 entries, with    *)
(* equality when all n-grams are distinct.                                 *)
(***************************************************************************)
C3_Original ==
  Built =>
    \A n \in 1..3 :
      /\ Len(Table(n)) <= Len(wseq) - n + 1
      /\ AllDistinct(wseq, n) => Len(Table(n)) = Len(wseq) - n + 1

(***************************************************************************)
(* C3, amended: table N has at most max(0, len(tokens) - N + 1) entries,   *)
(* with equality when all n-grams are distinct.                            *)
(***************************************************************************)
C3_DistinctEntriesBound ==
  Built =>
    \A n \in 1..3 :
      /\ Len(Table(n)) <= Max(0, Len(wseq) - n + 1)
      /\ AllDistinct(wseq, n) => Len(Table(n)) = Max(0, Len(wseq) - n + 1)

C3_Witness ==
  /\ pc = "done"
  /\ Len(wseq) = 3
  /\ Len(counter) = 2
  /\ AllDistinct(wseq, 2)
  /\ Len(counter_pairs) = 2

(***************************************************************************)
(* C4: the keys of each table are exactly the n-grams at the window        *)
(* positions of the corpus, each stored once, with the number of its       *)
(* positions as count: at least 1, never 0.                                *)
(***************************************************************************)
C4_KeysAreObservedNGrams ==
  Built =>
    \A n \in 1..3 :
      LET t == Table(n)
      IN  /\ \A i, j \in 1..Len(t) : i # j => t[i].key # t[j].key
          /\ { e.key : e \in Entries(t) } = { KeyAt(wseq, n, i) : i \in Positions(wseq, n) }
          /\ \A e \in Entries(t) : e.n = Occurrences(wseq, n, e.key) /\ e.n >= 1

C4_Witness ==
  /\ pc = "done"
  /\ \E e \in Entries(counter_pairs) : e.n = 2
  /\ \E e \in Entries(counter_triples) : e.n = 1
  /\ \E e \in Entries(counter) : e.n = 3

\* An estimate has been evaluated.
Answered(op) == pc = "answered" /\ query.op = op

\* The unigram estimate of the evaluated query's word w2.
UnigramOfQuery == unigram_prob(query.w2, counter, Len(wseq), query.e1, Len(counter))

IsPositive(x) == IsValue(x) /\ QLess(Q(0, 1), x)

(***************************************************************************)
(* C5, as stated: on a non-empty corpus unigram_prob lies in (0, 1] for    *)
(* every word and every smoothing constant, eps1 = 0 included.             *)
(***************************************************************************)
C5_Original ==
  Answered("unigram_prob") /\ wseq # <<>>
    => IsPositive(result) /\ QLeq(result, Q(1, 1))

(***************************************************************************)
(* C5, amended: on a non-empty corpus unigram_prob lies in (0, 1] for      *)
(* every word, seen or unseen, and every smoothing constant eps1 > 0.      *)
(***************************************************************************)
C5_UnigramProbInUnitInterval ==
  Answered("unigram_prob") /\ wseq # <<>> /\ QLess(Q(0, 1), query.e1)
    => IsPositive(result) /\ QLeq(result, Q(1, 1))

C5_Witness ==
  /\ Answered("unigram_prob")
  /\ wseq # <<>>
  /\ Occurrences(wseq, 1, query.w2) = 0
  /\ query.e1 = Q(1, 2)
  /\ IsPositive(result)
  /\ QLess(result, Q(1, 1))

C7_Original ==
  Answered("bigram_prob") /\ wseq # <<>> => IsPositive(result)

(***************************************************************************)
(* C7, amended: on a non-empty corpus, with smoothing constants eps1 > 0   *)
(* and eps2 > 0, bigram_prob is strictly positive for every pair, seen or  *)
(* unseen, and so is its back-off value.                                   *)
(***************************************************************************)
C7_BigramProbPositive ==
  /\ Answered("bigram_prob")
  /\ wseq # <<>>
  /\ QLess(Q(0, 1), query.e1)
  /\ QLess(Q(0, 1), query.e2)
  => IsPositive(result)

C7_Witness ==
  /\ Answered("bigram_prob")
  /\ Occurrences(wseq, 1, query.w1) > 0
  /\ Occurrences(wseq, 2, <<query.w1, query.w2>>) = 0
  /\ Occurrences(wseq, 1, query.w2) = 0
  /\ query.e1 = Q(1, 2)
  /\ query.e2 = Q(2, 1)
  /\ IsPositive(result)

(***************************************************************************)
(* C8: with eps1 = 0, unigram_prob is the relative frequency count/total;  *)
(* for the tokens a b a b a the unigram table is {a:3, b:2}, the bigram    *)
(* table is {(a,b):2, (b,a):2}, and unigram_prob(a) with eps1 = 0 is 3/5.  *)
(***************************************************************************)
C8_RelativeFrequency ==
  /\ Answered("unigram_prob") /\ wseq # <<>> /\ query.e1 = Q(0, 1)
       => result = Q(Occurrences(wseq, 1, query.w2), Len(wseq))
  /\ Built /\ wseq = <<a, b, a, b, a>>
       => /\ Len(counter) = 2
          /\ Entries(counter) = { [key |-> a, n |-> 3], [key |-> b, n |-> 2] }
          /\ Len(counter_pairs) = 2
          /\ Entries(counter_pairs) = { [key |-> <<a, b>>, n |-> 2], [key |-> <<b, a>>, n |-> 2] }
          /\ Answered("unigram_prob") /\ query.w2 = a /\ query.e1 = Q(0, 1)
               => result = [err |-> "none", num |-> 3, den |-> 5]

C8_Witness ==
  /\ Answered("unigram_prob")
  /\ wseq = <<a, b, a, b, a>>
  /\ query.w2 = a
  /\ query.e1 = Q(0, 1)
  /\ result = [err |-> "none", num |-> 3, den |-> 5]

LettersOf(line) ==
  LET ls == SelectSeq(line, LAMBDA c : c \in {"a", "b", "A", "B"})
  IN  [i \in 1..Len(ls) |-> IF ls[i] = "A" THEN "a" ELSE IF ls[i] = "B" THEN "b" ELSE ls[i]]

(***************************************************************************)
(* C10: tokenize produces a token sequence for every line; each token is   *)
(* non-empty and made of lower-case letters only, the tokens together are  *)
(* the letters of the line in order, and a line without a letter (an empty *)
(* one included) gives no token.                                           *)
(***************************************************************************)
C10_TokensAreLowerCaseWords ==
  fileExists /\ pc # "read"
    => /\ Len(raw_dataset) = Len(lines)
       /\ \A i \in 1..Len(lines) :
            LET toks == raw_dataset[i]
            IN  /\ \A j \in 1..Len(toks) :
                     /\ toks[j] # <<>>
                     /\ \A k \in 1..Len(toks[j]) : toks[j][k] \in {"a", "b"}
                /\ Flatten(toks) = LettersOf(lines[i])
                /\ LettersOf(lines[i]) = <<>> => toks = <<>>

C10_Witness ==
  /\ pc = "count"
  /\ lines = << <<"B", "'", "a", " ">> >>
  /\ raw_dataset = << <<b, a>> >>

(***************************************************************************)
(* C11: once a table is built no later step changes it or the corpus:      *)
(* looking up a present or an absent key (an absent key reads as 0 and is  *)
(* not inserted), listing the entries by frequency, building a             *)
(* higher-order table and evaluating an estimate leave the unigram, bigram *)
(* and trigram tables as they were.                                        *)
(***************************************************************************)
C11_TablesNeverChange ==
  [][ /\ pc # "read" => lines' = lines /\ raw_dataset' = raw_dataset
      /\ pc \in {"plot", "pairs", "triples", "done", "answered"}
           => /\ counter' = counter
              /\ Lookup(counter', Traveller) = 0
              /\ ~HasKey(counter', Traveller)
      /\ pc \in {"triples", "done", "answered"}
           => wseq' = wseq /\ counter_pairs' = counter_pairs
      /\ pc \in {"done", "answered"} => counter_triples' = counter_triples
      /\ pc' = "answered" /\ ~HasKey(counter, query'.w2)
           => ~HasKey(counter', query'.w2) /\ Lookup(counter', query'.w2) = 0
    ]_vars

C11_Witness ==
  /\ pc = "answered"
  /\ query.op = "bigram_prob"
  /\ Lookup(counter, query.w1) = 3
  /\ ~HasKey(counter, query.w2)
  /\ ~HasKey(counter_pairs, <<query.w1, query.w2>>)
  /\ Len(counter_pairs) = 1
  /\ Len(counter_triples) = 1
  /\ wordcounts = <<3>>
  /\ bigramcounts = <<2>>

(***************************************************************************)
(* C12: a table built again from the same corpus, at any point after its   *)
(* first build and whatever the other tables built meanwhile, is the same  *)
(* mapping as the first one in whatever order the window positions are     *)
(* counted, and is the very same table when they are counted in the same   *)
(* order.                                                                  *)
(***************************************************************************)
C12_RebuildGivesSameTable ==
  rebuilt.n # 0 =>
    LET t == rebuilt.table
        first == Table(rebuilt.n)
    IN  /\ Len(t) = Len(first)
        /\ Entries(t) = Entries(first)
        /\ \A i, j \in 1..Len(t) : i # j => t[i].key # t[j].key
        /\ rebuilt.order = NoRebuild.order => t = first

C12_Witness ==
  /\ pc = "triples"
  /\ rebuilt.n = 2
  /\ rebuilt.order.rev
  /\ Len(counter_pairs) = 3
  /\ rebuilt.table # counter_pairs
  /\ Entries(rebuilt.table) = Entries(counter_pairs)

(***************************************************************************)
(* C13: when the corpus file is not found, the only step of the run is the *)
(* one into the missing-file error; nothing follows it (no retry, no       *)
(* recovery), and no token sequence, no table and no estimate is ever      *)
(* produced.                                                               *)
(***************************************************************************)
C13_MissingFileIsFatal ==
  /\ [](~fileExists =>
          /\ pc \in {"read", "FileNotFoundError"}
          /\ raw_dataset = <<>> /\ wseq = <<>>
          /\ counter = <<>> /\ counter_pairs = <<>> /\ counter_triples = <<>>
          /\ query = NoQuery /\ rebuilt = NoRebuild)
  /\ [][ /\ pc # "FileNotFoundError"
         /\ ~fileExists => pc' = "FileNotFoundError" ]_vars

C13_Witness ==
  /\ ~fileExists
  /\ pc = "FileNotFoundError"
  /\ raw_dataset = <<>>
  /\ counter = <<>>

\* The sum of the counts of the bigrams whose word at place i (1 or 2) is w.
SumWhere(c, i, w) == SumCounts(SelectSeq(c, LAMBDA e : e.key[i] = w))

\* Every word that is counted or asked about.
WordsOfInterest == { e.key : e \in Entries(counter) } \cup QueryWords

(***************************************************************************)
(* C14: for every word w the bigram counts with first word w sum to the    *)
(* unigram count of w, less 1 if w is the last token of the corpus; those  *)
(* with second word w sum to the unigram count of w, less 1 if w is the    *)
(* first token; hence no bigram count exceeds the unigram count of its     *)
(* first word.                                                             *)
(***************************************************************************)
C14_MarginalConsistency ==
  Built =>
    /\ \A w \in WordsOfInterest :
         /\ SumWhere(counter_pairs, 1, w)
              = Lookup(counter, w)
                  - (IF wseq # <<>> /\ wseq[Len(wseq)] = w THEN 1 ELSE 0)
         /\ SumWhere(counter_pairs, 2, w)
              = Lookup(counter, w)
                  - (IF wseq # <<>> /\ wseq[1] = w THEN 1 ELSE 0)
    /\ \A e \in Entries(counter_pairs) : e.n <= Lookup(counter, e.key[1])

C14_Witness ==
  /\ pc = "done"
  /\ wseq = <<a, b, a, a>>
  /\ SumWhere(counter_pairs, 1, a) = 2
  /\ SumWhere(counter_pairs, 2, a) = 2
  /\ SumWhere(counter_pairs, 1, b) = 1
  /\ Lookup(counter, a) = 3

\* Lines i < j with tokens and only token-less lines between them.
NextNonEmpty(i, j) ==
  /\ i < j
  /\ raw_dataset[i] # <<>>
  /\ raw_dataset[j] # <<>>
  /\ \A k \in (i + 1)..(j - 1) : raw_dataset[k] = <<>>

(***************************************************************************)
(* C15: the n-grams are those of the one token sequence of all lines: the  *)
(* last token of a line and the first token of the next line that has      *)
(* tokens are a counted bigram, at the window position of that last token; *)
(* lines without tokens contribute nothing; and for T >= 1 tokens the      *)
(* bigram counts sum to T - 1 and the trigram counts to max(0, T - 2).     *)
(***************************************************************************)
C15_NGramsCrossLines ==
  Built =>
    /\ wseq = Flatten(SelectSeq(raw_dataset, LAMBDA st : st # <<>>))
    /\ Len(wseq) = TokenTotal(raw_dataset)
    /\ \A i, j \in 1..Len(raw_dataset) :
         NextNonEmpty(i, j) =>
           LET last == raw_dataset[i][Len(raw_dataset[i])]
               first == raw_dataset[j][1]
               at == TokenTotal(SubSeq(raw_dataset, 1, i))
           IN  /\ at \in 1..Len(word_pairs)
               /\ word_pairs[at] = <<last, first>>
               /\ Lookup(counter_pairs, <<last, first>>) >= 1
    /\ Len(wseq) >= 1 =>
         /\ SumCounts(counter_pairs) = Len(wseq) - 1
         /\ SumCounts(counter_triples) = Max(0, Len(wseq) - 2)

C15_Witness ==
  /\ pc = "done"
  /\ raw_dataset = << <<a, b>>, <<>>, <<b>> >>
  /\ Lookup(counter_pairs, <<b, b>>) = 1
  /\ SumCounts(counter_pairs) = 2
  /\ SumCounts(counter_triples) = 1

\* The number of letters a line starts with.
RECURSIVE LeadingLetters(_)
LeadingLetters(line) ==
  IF line = <<>> \/ Head(line) \notin {"a", "b", "A", "B"} THEN 0
  ELSE 1 + LeadingLetters(Tail(line))

\* The maximal runs of letters of a line, in order, each in lower case.
RECURSIVE LetterRuns(_)
LetterRuns(line) ==
  IF line = <<>> THEN <<>>
  ELSE LET n == LeadingLetters(line)
       IN  IF n = 0 THEN LetterRuns(Tail(line))
           ELSE <<LettersOf(SubSeq(line, 1, n))>> \o LetterRuns(SubSeq(line, n + 1, Len(line)))

(***************************************************************************)
(* C16: the tokens of a line are exactly its maximal runs of letters,      *)
(* lower-cased, in order; a run of non-letters of any kind separates two   *)
(* tokens, so a word with a non-letter inside gives two tokens.            *)
(***************************************************************************)
C16_TokensAreLetterRuns ==
  fileExists /\ pc # "read"
    => \A i \in 1..Len(lines) :
         /\ raw_dataset[i] = LetterRuns(lines[i])
         /\ \A k \in 2..(Len(lines[i]) - 1) :
              /\ lines[i][k] \notin {"a", "b", "A", "B"}
              /\ lines[i][k - 1] \in {"a", "b", "A", "B"}
              /\ lines[i][k + 1] \in {"a", "b", "A", "B"}
              => Len(raw_dataset[i]) >= 2

C16_Witness ==
  /\ pc = "count"
  /\ lines = << <<"B", "a", "'", "a">> >>
  /\ raw_dataset = << << <<"b", "a">>, a >> >>

\* The smoothing formula on the evaluated query, without the back-off.
FormulaOfQuery ==
  bigram_formula(query.w2, query.w1, counter_pairs, counter, query.e2, UnigramOfQuery)

(***************************************************************************)
(* C17: when w1 never occurs in the corpus and eps2 > 0, the smoothing     *)
(* formula itself gives unigram_prob(w2), which is what the back-off       *)
(* returns; at eps2 = 0 the formula is a division by zero, so only there   *)
(* does the back-off change the outcome.                                   *)
(***************************************************************************)
C17_BackoffAgreesWithFormula ==
  Answered("bigram_prob") /\ Occurrences(wseq, 1, query.w1) = 0
    => /\ Lookup(counter, query.w1) = 0
       /\ result = UnigramOfQuery
       /\ QLess(Q(0, 1), query.e2) => FormulaOfQuery = UnigramOfQuery
       /\ query.e2 = Q(0, 1) => FormulaOfQuery = ZeroDivisionError

C17_Witness ==
  /\ Answered("bigram_prob")
  /\ wseq # <<>>
  /\ Occurrences(wseq, 1, query.w1) = 0
  /\ query.e1 = Q(1, 2)
  /\ query.e2 = Q(1, 2)
  /\ IsPositive(result)
  /\ QLess(result, Q(1, 1))
  /\ FormulaOfQuery = result

====
